---- MODULE Spec2Model ----
(***************************************************************************)
(* Model of src/server.js: the relay's init() (Ollama endpoint probing,    *)
(* SDK verification, CLI fallback, server start) and the /api/* request    *)
(* handlers that read the transport selected by init().                    *)
(*                                                                         *)
(* init() is an async function: it is split into one action per await, so  *)
(* that other init() calls can interleave at the awaits.  The closure      *)
(* variables ollama, useCLI and activeOllamaHost exist once, because only  *)
(* the call that passes the `initiated` guard reaches their declaration.   *)
(***************************************************************************)
EXTENDS Naturals, Sequences, FiniteSets

\* ---------------------------------------------------------------- bounds
MaxInitCalls == 2      \* init() invocations per process
MaxChunks == 2         \* chunks a source stream produces before it ends
MaxStdoutLen == 8      \* characters of `ollama list` output that is parsed

\* ------------------------------------------------------- values and inputs
Undefined == "<undefined>"   \* JavaScript undefined (unset env variable)
Null == "<null>"             \* JavaScript null

\* values of process.env.OLLAMA_HOST: unset, empty, equal to a literal of
\* the list, or an address of its own
EnvHosts == {Undefined, "", "http://localhost:11434", "http://ollama.lan:11434"}

\* results of getLocalIPAddress(): the first external IPv4 address (a LAN
\* address, or the docker0 bridge address when that interface comes first),
\* or the "0.0.0.0" default when there is none
LocalIPs == {"0.0.0.0", "192.168.0.7", "172.17.0.1"}

\* what one GET host/api/version can end in
LivenessOutcomes == {"ok", "timeout", "refused", "non2xx", "malformed"}

\* what `ollama --version` can end in
CliVersionOutcomes == {"exit0_output", "exit0_empty", "nonzero", "timeout"}

\* what an SDK call or a CLI command of a request can end in
NetOutcomes == {"ok", "error", "timeout"}
CliOutcomes == {"ok", "nonzero", "timeout", "maxbuffer"}

VARIABLES
    OLLAMA_HOST,        \* process.env.OLLAMA_HOST
    localIP,            \* what getLocalIPAddress() returns
    initiated,          \* this.initiated
    initCalls,          \* number of init() invocations so far
    initRet,            \* per invocation: what init() returned
    pc,                 \* position of the init() call that passed the guard
    possibleHosts,      \* findWorkingOllamaHost: the filtered candidate list
    idx,                \* findWorkingOllamaHost: index of the host under test
    checked,            \* liveness checks performed, in order: [host, ok]
    lastOutcome,        \* outcome of the most recent liveness check
    workingHost,        \* init: result of findWorkingOllamaHost
    ollama,             \* init: the SDK client (its host), or Null
    useCLI,             \* init: CLI fallback flag
    activeOllamaHost,   \* init: host reported by /api/status
    verifyOutcome,      \* init: outcome of the verifying ollama.list()
    cliVersion,         \* init: outcome of `ollama --version`
    cliListed,          \* init: outcome of the verifying `ollama list`
    proberRuns,         \* number of findWorkingOllamaHost invocations
    cliProbeRuns,       \* number of testOllamaCLI invocations
    servers,            \* number of app.listen calls
    req,                \* the request being handled, and its response
    stdout,             \* getModelsViaCLI: output of `ollama list`, as characters
    models,             \* getModelsViaCLI: the descriptors parsed from it
    parsed              \* getModelsViaCLI has returned

initVars == <<initiated, initCalls, initRet, pc, possibleHosts, idx, checked,
              lastOutcome, workingHost, ollama, useCLI, activeOllamaHost,
              verifyOutcome, cliVersion, cliListed, proberRuns, cliProbeRuns,
              servers>>
envVars == <<OLLAMA_HOST, localIP>>
parseVars == <<stdout, models, parsed>>
vars == <<OLLAMA_HOST, localIP, initiated, initCalls, initRet, pc,
          possibleHosts, idx, checked, lastOutcome, workingHost, ollama,
          useCLI, activeOllamaHost, verifyOutcome, cliVersion, cliListed,
          proberRuns, cliProbeRuns, servers, req, stdout, models, parsed>>

\* ------------------------------------------------------ endpoint prober
\* Boolean(x) as used by .filter(Boolean): undefined and "" are falsy
Truthy(x) == x \notin {Undefined, ""}

\* CandidateList with the Docker gateway addresses ahead of the remote hosts
CandidateList_GatewaysBeforeRemotes(envHost, ip) ==
    SelectSeq(<< envHost,
                 "http://localhost:11434",
                 "http://127.0.0.1:11434",
                 "http://" \o ip \o ":11434",
                 "http://0.0.0.0:11434",
                 "http://host.docker.internal:11434",
                 "http://172.17.0.1:11434",
                 "http://172.18.0.1:11434",
                 "https://lzcollama.ponzs.heiyu.space",
                 "http://baota.ponzs.heiyu.space:11434",
                 "https://a.talkflow.team",
                 "http://192.168.1.1:11434",
                 "http://10.0.0.1:11434" >>, Truthy)

\* lines 89-105: the literal candidate list, then .filter(Boolean)
CandidateList(envHost, ip) ==
    SelectSeq(<< envHost,
                 "http://localhost:11434",
                 "http://127.0.0.1:11434",
                 "http://" \o ip \o ":11434",
                 "http://0.0.0.0:11434",
                 "https://lzcollama.ponzs.heiyu.space",
                 "http://baota.ponzs.heiyu.space:11434",
                 "https://a.talkflow.team",
                 "http://host.docker.internal:11434",
                 "http://172.17.0.1:11434",
                 "http://172.18.0.1:11434",
                 "http://192.168.1.1:11434",
                 "http://10.0.0.1:11434" >>, Truthy)

\* testOllamaConnection: true only for a 2xx response whose body parses;
\* an abort after 10 s, a refused connection, a non-2xx status and a body
\* that response.json() rejects all end in false
testOllamaConnection(outcome) == outcome = "ok"

\* ollamaHost of init's config (config = {}): env value or the default
DefaultOllamaHost(envHost) ==
    IF Truthy(envHost) THEN envHost ELSE "http://localhost:11434"

\* testOllamaCLI whose catch block returns true as well
testOllamaCLI_CatchReturnsTrue(outcome) == TRUE

\* testOllamaCLI: true unless execAsync rejects (non-zero exit, or killed
\* after 5 s); stdout is only logged
testOllamaCLI(outcome) == outcome \in {"exit0_output", "exit0_empty"}

\* ------------------------------------------------------------ requests
Ops == {"models", "chat", "generate", "create", "delete", "copy", "show",
        "pull", "push", "embeddings", "status"}
ManageOps == {"create", "delete", "copy", "show", "pull", "push"}
StreamOps == {"chat", "generate", "create", "pull", "push"}

NoBody == [http_api_available |-> FALSE, http_api_host |-> Undefined,
           cli_mode_available |-> FALSE, overall_status |-> Undefined]

\* no request received yet
NoRequest == [op |-> "none", stream |-> FALSE, pc |-> "none",
              netCalls |-> 0, procs |-> 0, sseHeaders |-> FALSE,
              written |-> 0, ended |-> FALSE, status |-> 0,
              error |-> "none", body |-> NoBody,
              bodyOk |-> TRUE,       \* messages / prompt present in req.body
              seen |-> "none",       \* transport the handler saw selected
              outcome |-> "none",    \* how the transport call ended
              procAlive |-> FALSE,   \* a process started for it still runs
              produced |-> << >>,    \* chunks the source stream delivered
              relayed |-> << >>,     \* chunks written to the response
              srcEnded |-> FALSE]    \* the source stream has ended

Init ==
    /\ OLLAMA_HOST \in EnvHosts
    /\ localIP \in LocalIPs
    /\ initiated = FALSE
    /\ initCalls = 0
    /\ initRet = << >>
    /\ pc = "start"
    /\ possibleHosts = << >>
    /\ idx = 0
    /\ checked = << >>
    /\ lastOutcome = "none"
    /\ workingHost = Undefined
    /\ ollama = Null
    /\ useCLI = FALSE
    /\ activeOllamaHost = Undefined
    /\ verifyOutcome = "unset"
    /\ cliVersion = "unset"
    /\ cliListed = "unset"
    /\ proberRuns = 0
    /\ cliProbeRuns = 0
    /\ servers = 0
    /\ req = NoRequest
    /\ stdout = << >>
    /\ models = << >>
    /\ parsed = FALSE

\* ---------------------------------------------------------------- init()
\* lines 285-292 passed: ollama and useCLI have their final values
Resolved == pc \in {"listen", "done"}

\* overall_status of lines 658 and 738-744
Mode ==
    IF ~Resolved THEN "Uninitialized"
    ELSE IF ollama # Null THEN "NetworkAPI"
    ELSE IF useCLI THEN "CliFallback"
    ELSE "Unavailable"

\* AfterHttpStage without the test of line 269: the CLI is probed whether or
\* not the SDK client was verified
AfterHttpStage_Unconditional(client) ==
    /\ cliProbeRuns' = cliProbeRuns + 1
    /\ pc' = "cliProbe"

\* AfterHttpStage with the test of line 269 inverted
AfterHttpStage_Inverted(client) ==
    IF client # Null
    THEN /\ cliProbeRuns' = cliProbeRuns + 1
         /\ pc' = "cliProbe"
    ELSE /\ pc' = "listen"
         /\ UNCHANGED cliProbeRuns

\* lines 269-271 and 287: `if (!ollama)`: testOllamaCLI() is started only
\* when there is no SDK client; otherwise init goes on to start the server
AfterHttpStage(client) ==
    IF client = Null
    THEN /\ cliProbeRuns' = cliProbeRuns + 1
         /\ pc' = "cliProbe"
    ELSE /\ pc' = "listen"
         /\ UNCHANGED cliProbeRuns

\* lines 238-255: findWorkingOllamaHost() resolved to h; init declares its
\* closure variables and, with a host, constructs the client and starts the
\* verifying ollama.list()
ProberReturns(h) ==
    /\ workingHost' = h
    /\ useCLI' = FALSE
    /\ activeOllamaHost' = IF h # Null THEN h ELSE DefaultOllamaHost(OLLAMA_HOST)
    /\ IF h # Null
       THEN /\ ollama' = h
            /\ pc' = "verify"
            /\ UNCHANGED cliProbeRuns
       ELSE /\ ollama' = Null
            /\ AfterHttpStage(Null)

\* lines 211-238 and 87-113: init's synchronous prefix, then
\* findWorkingOllamaHost() up to its first testOllamaConnection
StartProber ==
    /\ possibleHosts' = CandidateList(OLLAMA_HOST, localIP)
    /\ idx' = 1
    /\ proberRuns' = proberRuns + 1
    /\ pc' = "probing"

\* InitCall without the guard of line 208: every call initializes again
InitCall_NoGuard ==
    /\ initCalls < MaxInitCalls
    /\ initCalls' = initCalls + 1
    /\ initiated' = TRUE
    /\ initRet' = Append(initRet, [ret |-> "pending", late |-> pc = "done"])
    /\ StartProber
    /\ UNCHANGED <<envVars, parseVars, checked, lastOutcome, workingHost, ollama, useCLI,
                   activeOllamaHost, verifyOutcome, cliVersion, cliListed,
                   cliProbeRuns, servers, req>>

\* InitCall without the assignment of line 209: the flag is tested but never
\* set, so a call made while the first is still probing initializes again
InitCall_FlagNotSet ==
    /\ initCalls < MaxInitCalls
    /\ initCalls' = initCalls + 1
    /\ IF initiated
       THEN /\ initRet' = Append(initRet, [ret |-> "undefined", late |-> pc = "done"])
            /\ UNCHANGED <<pc, possibleHosts, idx, proberRuns>>
       ELSE /\ initRet' = Append(initRet, [ret |-> "pending", late |-> pc = "done"])
            /\ StartProber
    /\ UNCHANGED <<envVars, parseVars, initiated, checked, lastOutcome, workingHost,
                   ollama, useCLI, activeOllamaHost, verifyOutcome, cliVersion,
                   cliListed, cliProbeRuns, servers, req>>

\* lines 207-209: a call of init(); a call that finds the flag set returns
\* undefined at once
InitCall ==
    /\ initCalls < MaxInitCalls
    /\ initCalls' = initCalls + 1
    /\ IF initiated
       THEN /\ initRet' = Append(initRet, [ret |-> "undefined", late |-> pc = "done"])
            /\ UNCHANGED <<initiated, pc, possibleHosts, idx, proberRuns>>
       ELSE /\ initiated' = TRUE
            /\ initRet' = Append(initRet, [ret |-> "pending", late |-> FALSE])
            /\ StartProber
    /\ UNCHANGED <<envVars, parseVars, checked, lastOutcome, workingHost, ollama, useCLI,
                   activeOllamaHost, verifyOutcome, cliVersion, cliListed,
                   cliProbeRuns, servers, req>>

\* ProbeStep without the early return of line 116: the loop remembers the
\* host that answered and goes on to the end of the list
ProbeStep_NoEarlyReturn ==
    /\ pc = "probing"
    /\ \E o \in LivenessOutcomes :
         LET host == possibleHosts[idx]
             isConnected == testOllamaConnection(o)
             found == IF isConnected THEN host
                      ELSE IF workingHost = Undefined THEN Null
                      ELSE workingHost
         IN /\ checked' = Append(checked, [host |-> host, ok |-> isConnected])
            /\ lastOutcome' = o
            /\ IF idx < Len(possibleHosts)
               THEN /\ idx' = idx + 1
                    /\ workingHost' = found
                    /\ UNCHANGED <<pc, ollama, useCLI, activeOllamaHost,
                                   cliProbeRuns>>
               ELSE ProberReturns(found) /\ UNCHANGED idx
    /\ UNCHANGED <<envVars, parseVars, initiated, initCalls, initRet, possibleHosts,
                   verifyOutcome, cliVersion, cliListed, proberRuns, servers,
                   req>>

\* lines 112-121 with 54-84: one testOllamaConnection(host) settles; the
\* loop returns the host on true, moves on otherwise, returns null at the end
ProbeStep ==
    /\ pc = "probing"
    /\ \E o \in LivenessOutcomes :
         LET host == possibleHosts[idx]
             isConnected == testOllamaConnection(o)
         IN /\ checked' = Append(checked, [host |-> host, ok |-> isConnected])
            /\ lastOutcome' = o
            /\ IF isConnected
               THEN ProberReturns(host) /\ UNCHANGED idx
               ELSE IF idx < Len(possibleHosts)
               THEN /\ idx' = idx + 1
                    /\ UNCHANGED <<pc, workingHost, ollama, useCLI,
                                   activeOllamaHost, cliProbeRuns>>
               ELSE ProberReturns(Null) /\ UNCHANGED idx
    /\ UNCHANGED <<envVars, parseVars, initiated, initCalls, initRet, possibleHosts,
                   verifyOutcome, cliVersion, cliListed, proberRuns, servers,
                   req>>

\* lines 255-271: the verifying ollama.list() settles
VerifyReply ==
    /\ pc = "verify"
    /\ \E o \in NetOutcomes :
         /\ verifyOutcome' = o
         /\ IF o = "ok"
            THEN /\ activeOllamaHost' = workingHost
                 /\ UNCHANGED ollama
                 /\ AfterHttpStage(ollama)
            ELSE /\ ollama' = Null
                 /\ AfterHttpStage(Null)
                 /\ UNCHANGED activeOllamaHost
    /\ UNCHANGED <<envVars, parseVars, initiated, initCalls, initRet, possibleHosts, idx,
                   checked, lastOutcome, workingHost, useCLI, cliVersion,
                   cliListed, proberRuns, servers, req>>

\* lines 271-275: testOllamaCLI() settles
CliProbeReply ==
    /\ pc = "cliProbe"
    /\ \E o \in CliVersionOutcomes :
         /\ cliVersion' = o
         /\ pc' = IF testOllamaCLI(o) THEN "cliList" ELSE "listen"
    /\ UNCHANGED <<envVars, parseVars, initiated, initCalls, initRet, possibleHosts, idx,
                   checked, lastOutcome, workingHost, ollama, useCLI,
                   activeOllamaHost, verifyOutcome, cliListed, proberRuns,
                   cliProbeRuns, servers, req>>

\* CliListReply with `useCLI = true` set whatever getModelsViaCLI() did
CliListReply_IgnoresFailure ==
    /\ pc = "cliList"
    /\ \E o \in CliOutcomes : cliListed' = o
    /\ useCLI' = TRUE
    /\ pc' = "listen"
    /\ UNCHANGED <<envVars, parseVars, initiated, initCalls, initRet, possibleHosts, idx,
                   checked, lastOutcome, workingHost, ollama,
                   activeOllamaHost, verifyOutcome, cliVersion, proberRuns,
                   cliProbeRuns, servers, req>>

\* lines 275-292: the verifying getModelsViaCLI() settles
CliListReply ==
    /\ pc = "cliList"
    /\ \E o \in CliOutcomes :
         /\ cliListed' = o
         /\ useCLI' = (o = "ok")
    /\ pc' = "listen"
    /\ UNCHANGED <<envVars, parseVars, initiated, initCalls, initRet, possibleHosts, idx,
                   checked, lastOutcome, workingHost, ollama,
                   activeOllamaHost, verifyOutcome, cliVersion, proberRuns,
                   cliProbeRuns, servers>>
    /\ UNCHANGED req

\* lines 678-754: a free port is found, app.listen(), init returns {app, db}
Listen ==
    /\ pc = "listen"
    /\ pc' = "done"
    /\ servers' = servers + 1
    /\ initRet' = [i \in DOMAIN initRet |->
                     IF initRet[i].ret = "pending"
                     THEN [initRet[i] EXCEPT !.ret = "app_db"]
                     ELSE initRet[i]]
    /\ UNCHANGED <<envVars, parseVars, initiated, initCalls, possibleHosts, idx, checked,
                   lastOutcome, workingHost, ollama, useCLI, activeOllamaHost,
                   verifyOutcome, cliVersion, cliListed, proberRuns,
                   cliProbeRuns, req>>

\* ------------------------------------------------------ request handlers
\* res.status(status).json({error: ...}) or res.json(...): the response is
\* sent and ended
Respond(r, status, error) ==
    [r EXCEPT !.pc = "done", !.status = status, !.error = error, !.ended = TRUE]

\* an SDK call is started and awaited
NetCall(r, at) == [r EXCEPT !.netCalls = @ + 1, !.pc = at]

\* execAsync starts a subprocess, which is awaited
Exec(r) == [r EXCEPT !.procs = @ + 1, !.procAlive = TRUE, !.pc = "awaitCLI"]

\* checkOllamaConnection answering with the catch blocks' status 500
checkOllamaConnection_Status500(r, next) ==
    IF ollama = Null /\ ~useCLI
    THEN Respond(r, 500, "Ollama service unavailable")
    ELSE next

\* checkOllamaConnection that always calls next()
checkOllamaConnection_PassThrough(r, next) == next

\* lines 297-310: the middleware in front of every /api route but status
checkOllamaConnection(r, next) ==
    IF ollama = Null /\ ~useCLI
    THEN Respond(r, 503, "Ollama service unavailable")
    ELSE next

\* lines 313-334, up to the await
GetModels(r) ==
    IF ollama # Null THEN NetCall(r, "awaitNet")
    ELSE IF useCLI THEN Exec(r)
    ELSE Respond(r, 200, "none")

\* PostChat without the stream test of lines 370-375
PostChat_NoStreamCheck(r) ==
    IF ollama # Null
    THEN IF r.stream
         THEN NetCall([r EXCEPT !.sseHeaders = TRUE], "awaitOpen")
         ELSE NetCall(r, "awaitNet")
    ELSE IF useCLI THEN Exec(r)
    ELSE [r EXCEPT !.pc = "hung"]

\* lines 337-388, up to the await; chatViaCLI (lines 160-183) throws before
\* execAsync when req.body.messages has no last message
PostChat(r) ==
    IF ollama # Null
    THEN IF r.stream
         THEN NetCall([r EXCEPT !.sseHeaders = TRUE], "awaitOpen")
         ELSE NetCall(r, "awaitNet")
    ELSE IF useCLI
    THEN IF r.stream
         THEN Respond(r, 400, "CLI mode does not support streaming")
         ELSE IF r.bodyOk THEN Exec(r)
         ELSE Respond(r, 500, "CLI Chat Error: TypeError")
    ELSE [r EXCEPT !.pc = "hung"]

\* lines 391-442, up to the await; generateViaCLI (lines 186-203) throws
\* before execAsync when req.body.prompt is no string
PostGenerate(r) ==
    IF ollama # Null
    THEN IF r.stream
         THEN NetCall([r EXCEPT !.sseHeaders = TRUE], "awaitOpen")
         ELSE NetCall(r, "awaitNet")
    ELSE IF useCLI
    THEN IF r.stream
         THEN Respond(r, 400, "CLI mode does not support streaming")
         ELSE IF r.bodyOk THEN Exec(r)
         ELSE Respond(r, 500, "CLI Generate Error: TypeError")
    ELSE [r EXCEPT !.pc = "hung"]

\* HttpApiOnly without the `if (!ollama)` test
HttpApiOnly_NoCheck(r, next) == next

\* the `if (!ollama) return res.status(400)...` that opens every
\* HTTP-API-only handler (lines 446, 483, 503, 523, 543, 581, 619)
HttpApiOnly(r, next) ==
    IF ollama = Null
    THEN Respond(r, 400, "HTTP API mode only")
    ELSE next

\* lines 445-479: ollama.create is awaited before the SSE headers are set
PostModelsCreate(r) ==
    HttpApiOnly(r, NetCall(r, IF r.stream THEN "awaitOpen" ELSE "awaitNet"))

\* lines 482-499
DeleteModel(r) == HttpApiOnly(r, NetCall(r, "awaitNet"))

\* lines 502-519
PostModelsCopy(r) == HttpApiOnly(r, NetCall(r, "awaitNet"))

\* lines 522-539
GetModel(r) == HttpApiOnly(r, NetCall(r, "awaitNet"))

\* lines 542-577
PostModelsPull(r) ==
    HttpApiOnly(r, IF r.stream
                   THEN NetCall([r EXCEPT !.sseHeaders = TRUE], "awaitOpen")
                   ELSE NetCall(r, "awaitNet"))

\* lines 580-615
PostModelsPush(r) ==
    HttpApiOnly(r, IF r.stream
                   THEN NetCall([r EXCEPT !.sseHeaders = TRUE], "awaitOpen")
                   ELSE NetCall(r, "awaitNet"))

\* lines 618-638
PostEmbeddings(r) == HttpApiOnly(r, NetCall(r, "awaitNet"))

\* GetStatus with `host: activeOllamaHost` in place of line 652: the host is
\* reported whether or not there is a client
GetStatus_HostUnconditional(r) ==
    [r EXCEPT !.pc = "done", !.status = 200, !.ended = TRUE,
              !.body = [http_api_available |-> ollama # Null,
                        http_api_host |-> activeOllamaHost,
                        cli_mode_available |-> useCLI,
                        overall_status |-> IF ollama # Null THEN "HTTP API"
                                           ELSE IF useCLI THEN "CLI Mode"
                                           ELSE "Unavailable"]]

\* lines 641-667: no middleware, no await
GetStatus(r) ==
    [r EXCEPT !.pc = "done", !.status = 200, !.ended = TRUE,
              !.body = [http_api_available |-> ollama # Null,
                        http_api_host |-> IF ollama # Null THEN activeOllamaHost
                                          ELSE Null,
                        cli_mode_available |-> useCLI,
                        overall_status |-> IF ollama # Null THEN "HTTP API"
                                           ELSE IF useCLI THEN "CLI Mode"
                                           ELSE "Unavailable"]]

\* the handlers registered behind checkOllamaConnection (lines 313-618)
Handler(r) ==
    CASE r.op = "models" -> GetModels(r)
      [] r.op = "chat" -> PostChat(r)
      [] r.op = "generate" -> PostGenerate(r)
      [] r.op = "create" -> PostModelsCreate(r)
      [] r.op = "delete" -> DeleteModel(r)
      [] r.op = "copy" -> PostModelsCopy(r)
      [] r.op = "show" -> GetModel(r)
      [] r.op = "pull" -> PostModelsPull(r)
      [] r.op = "push" -> PostModelsPush(r)
      [] r.op = "embeddings" -> PostEmbeddings(r)

\* Route with /api/status registered behind the middleware like the rest
Route_StatusGated(r) ==
    checkOllamaConnection(r, IF r.op = "status" THEN GetStatus(r) ELSE Handler(r))

\* the route table of lines 313-641: every route but /api/status has the
\* middleware in front
Route(r) ==
    IF r.op = "status" THEN GetStatus(r)
    ELSE checkOllamaConnection(r, Handler(r))

\* what a handler reads from the closure: `ollama ? 'HTTP API' : (useCLI ?
\* 'CLI' : 'none')` (lines 298, 316-320, 331)
SelectedTransport ==
    IF ollama # Null THEN "NetworkAPI"
    ELSE IF useCLI THEN "CliFallback"
    ELSE "Unavailable"

\* the handler of the request in flight has settled one way or another
Settled(r) == r.pc \in {"none", "done", "hung", "rejected"}

\* Request with the server listening from the start of init()
Request_BeforeListen ==
    /\ initiated
    /\ Settled(req)
    /\ \E op \in Ops :
         \E stream \in (IF op \in StreamOps THEN BOOLEAN ELSE {FALSE}) :
           \E bodyOk \in (IF op \in {"chat", "generate"} THEN BOOLEAN
                           ELSE {TRUE}) :
             req' = Route([NoRequest EXCEPT !.op = op, !.stream = stream,
                                            !.bodyOk = bodyOk,
                                            !.seen = SelectedTransport,
                                            !.pc = "handling"])
    /\ UNCHANGED <<envVars, parseVars, initVars>>

\* line 684: requests arrive once app.listen has run; the handler runs up to
\* its first await or to its response
Request ==
    /\ servers > 0
    /\ Settled(req)
    /\ \E op \in Ops :
         \E stream \in (IF op \in StreamOps THEN BOOLEAN ELSE {FALSE}) :
           \E bodyOk \in (IF op \in {"chat", "generate"} THEN BOOLEAN
                           ELSE {TRUE}) :
             req' = Route([NoRequest EXCEPT !.op = op, !.stream = stream,
                                            !.bodyOk = bodyOk,
                                            !.seen = SelectedTransport,
                                            !.pc = "handling"])
    /\ UNCHANGED <<envVars, parseVars, initVars>>

\* a non-streaming SDK call settles: res.json(response), or the catch
\* block's res.status(500).json({error: error.message, ...})
NetReply ==
    /\ req.pc = "awaitNet"
    /\ \E o \in NetOutcomes :
         req' = IF o = "ok"
                THEN Respond([req EXCEPT !.outcome = o], 200, "none")
                ELSE Respond([req EXCEPT !.outcome = o], 500, o)
    /\ UNCHANGED <<envVars, parseVars, initVars>>

\* a streaming SDK call settles: the iterator is returned (create sets the
\* SSE headers only now), or the catch block answers 500
StreamOpen ==
    /\ req.pc = "awaitOpen"
    /\ \E o \in NetOutcomes :
         req' = IF o = "ok"
                THEN [req EXCEPT !.pc = "streaming", !.sseHeaders = TRUE]
                ELSE Respond([req EXCEPT !.outcome = o], 500, o)
    /\ UNCHANGED <<envVars, parseVars, initVars>>

\* StreamChunk that collects the chunks instead of writing each on arrival
StreamChunk_Buffering ==
    /\ req.pc = "streaming"
    /\ Len(req.produced) < MaxChunks
    /\ req' = [req EXCEPT !.produced = Append(@, Len(@) + 1)]
    /\ UNCHANGED <<envVars, parseVars, initVars>>

\* `for await (const part of response) res.write(...)`: one chunk arrives
\* and is written before the loop awaits the next; the first write sends the
\* headers with status 200
StreamChunk ==
    /\ req.pc = "streaming"
    /\ req.written < MaxChunks
    /\ req' = [req EXCEPT !.written = @ + 1, !.status = 200,
                          !.produced = Append(@, Len(@) + 1),
                          !.relayed = Append(@, Len(req.produced) + 1)]
    /\ UNCHANGED <<envVars, parseVars, initVars>>

\* the source stream ends: res.end()
StreamEnd ==
    /\ req.pc = "streaming"
    /\ req' = [req EXCEPT !.pc = "done", !.status = 200, !.ended = TRUE,
                          !.srcEnded = TRUE, !.outcome = "ok"]
    /\ UNCHANGED <<envVars, parseVars, initVars>>

\* the source stream throws: the catch block's res.status(500).json(...)
\* answers 500 while no header was sent, and throws ERR_HTTP_HEADERS_SENT
\* out of the handler once a chunk was written
StreamError ==
    /\ req.pc = "streaming"
    /\ \E o \in NetOutcomes \ {"ok"} :
         req' = IF req.written = 0
                THEN Respond([req EXCEPT !.outcome = o], 500, o)
                ELSE [req EXCEPT !.pc = "rejected", !.outcome = o]
    /\ UNCHANGED <<envVars, parseVars, initVars>>

\* error.message of a rejected execAsync: child_process.exec reports a
\* non-zero exit and a kill after the timeout alike as "Command failed:
\* <cmd>", and an overrun of maxBuffer with a message of its own
ExecErrorMessage(o) ==
    IF o = "maxbuffer" THEN "stdout maxBuffer length exceeded"
    ELSE "Command failed"

\* after execAsync settles: the shell has exited by itself, or exec has
\* killed the shell alone (timeout, maxBuffer), whose `ollama` child may or
\* may not go on running
MayStillRun(o) == IF o \in {"timeout", "maxbuffer"} THEN BOOLEAN ELSE {FALSE}

\* the subprocess of getModelsViaCLI / chatViaCLI / generateViaCLI settles:
\* res.json(response), or the error rethrown as `CLI ... Error: <message>`
\* and answered with 500
CliReply ==
    /\ req.pc = "awaitCLI"
    /\ \E o \in CliOutcomes :
         \E alive \in MayStillRun(o) :
           LET r == [req EXCEPT !.outcome = o, !.procAlive = alive]
           IN req' = IF o = "ok" THEN Respond(r, 200, "none")
                     ELSE Respond(r, 500, ExecErrorMessage(o))
    /\ UNCHANGED <<envVars, parseVars, initVars>>

Next ==
    \/ InitCall
    \/ ProbeStep
    \/ VerifyReply
    \/ CliProbeReply
    \/ CliListReply
    \/ Listen
    \/ Request
    \/ NetReply
    \/ StreamOpen
    \/ StreamChunk
    \/ StreamEnd
    \/ StreamError
    \/ CliReply

Spec == Init /\ [][Next]_vars

\* ------------------------------------------- getModelsViaCLI: the parsing
\* A string is a sequence of one-character strings.
Alphabet == {"a", " ", "\n"}

\* the characters /\s/ and String.prototype.trim treat as white space
IsSpace(c) == c \in {" ", "\n"}

RECURSIVE TrimStart(_)
TrimStart(s) ==
    IF s = << >> THEN s
    ELSE IF IsSpace(Head(s)) THEN TrimStart(Tail(s))
    ELSE s

RECURSIVE TrimEnd(_)
TrimEnd(s) ==
    IF s = << >> THEN s
    ELSE IF IsSpace(s[Len(s)]) THEN TrimEnd(SubSeq(s, 1, Len(s) - 1))
    ELSE s

\* String.prototype.trim
Trim(s) == TrimEnd(TrimStart(s))

\* index of the first character of s that is in the set cs, or 0
FirstIndex(s, cs) ==
    IF \E i \in 1..Len(s) : s[i] \in cs
    THEN CHOOSE i \in 1..Len(s) :
             s[i] \in cs /\ \A j \in 1..(i - 1) : s[j] \notin cs
    ELSE 0

\* s.split('\n'): the pieces between line feeds, empty pieces included
RECURSIVE SplitLines(_)
SplitLines(s) ==
    LET k == FirstIndex(s, {"\n"})
    IN IF k = 0 THEN << s >>
       ELSE << SubSeq(s, 1, k - 1) >> \o SplitLines(SubSeq(s, k + 1, Len(s)))

\* s.split(/\s+/): the pieces between runs of white space; white space at
\* the start or the end of s gives an empty first or last piece
RECURSIVE SplitSpaces(_)
SplitSpaces(s) ==
    LET k == FirstIndex(s, {c \in Alphabet : IsSpace(c)})
    IN IF k = 0 THEN << s >>
       ELSE << SubSeq(s, 1, k - 1) >>
                \o SplitSpaces(TrimStart(SubSeq(s, k + 1, Len(s))))

\* parts[i] || '': the empty string for a missing or empty piece
OrEmpty(parts, i) == IF i <= Len(parts) THEN parts[i] ELSE << >>

\* lines 144-151: the descriptor made of the pieces of one line
Descriptor(parts) ==
    [name |-> parts[1],
     modified_at |-> OrEmpty(parts, 2),
     size |-> OrEmpty(parts, 3),
     digest |-> OrEmpty(parts, 4)]

\* lines 141-143: the lines of the trimmed output after the first, blank
\* lines dropped
DataLines(out) ==
    SelectSeq(Tail(SplitLines(Trim(out))), LAMBDA line : Trim(line) # << >>)

\* lines 140-153: what getModelsViaCLI makes of the output of `ollama list`
getModelsViaCLI(out) ==
    LET rows == DataLines(out)
    IN [i \in 1..Len(rows) |-> Descriptor(SplitSpaces(rows[i]))]

\* every output of at most MaxStdoutLen characters
Stdouts == UNION {[1..n -> Alphabet] : n \in 0..MaxStdoutLen}

InitParse ==
    /\ OLLAMA_HOST = Undefined
    /\ localIP = "0.0.0.0"
    /\ initiated = FALSE
    /\ initCalls = 0
    /\ initRet = << >>
    /\ pc = "start"
    /\ possibleHosts = << >>
    /\ idx = 0
    /\ checked = << >>
    /\ lastOutcome = "none"
    /\ workingHost = Undefined
    /\ ollama = Null
    /\ useCLI = FALSE
    /\ activeOllamaHost = Undefined
    /\ verifyOutcome = "unset"
    /\ cliVersion = "unset"
    /\ cliListed = "unset"
    /\ proberRuns = 0
    /\ cliProbeRuns = 0
    /\ servers = 0
    /\ req = NoRequest
    /\ stdout \in Stdouts
    /\ models = << >>
    /\ parsed = FALSE

\* lines 138-153: getModelsViaCLI parses the output it was given
ParseStdout ==
    /\ ~parsed
    /\ models' = getModelsViaCLI(stdout)
    /\ parsed' = TRUE
    /\ UNCHANGED <<envVars, initVars, req, stdout>>

NextParse == ParseStdout

SpecParse == InitParse /\ [][NextParse]_vars

\* ================================================================ claims
\* the prober has returned (line 238 has been passed)
ProberDone == pc \notin {"start", "probing"}

\* the liveness checks performed so far are those of candidates 1..n of
\* the list, in list order
CheckedInOrder(n) ==
    /\ Len(checked) = n
    /\ n <= Len(possibleHosts)
    /\ \A i \in 1..n : checked[i].host = possibleHosts[i]

\* C1: whenever the prober has found a host, that host is the k-th
\* candidate, where k is the first index whose liveness check succeeded;
\* candidates 1..k were checked in list order and no check was made on a
\* candidate after index k.
C1_FirstSuccessWins ==
    workingHost \notin {Undefined, Null} =>
        \E k \in 1..Len(possibleHosts) :
            /\ CheckedInOrder(k)
            /\ checked[k].ok
            /\ \A i \in 1..(k - 1) : ~checked[i].ok
            /\ workingHost = possibleHosts[k]

\* C1 witness: the third candidate was the first to answer, with
\* candidates left unchecked behind it
C1_Witness ==
    /\ ProberDone
    /\ workingHost \notin {Undefined, Null}
    /\ Len(checked) = 3
    /\ ~checked[1].ok /\ ~checked[2].ok /\ checked[3].ok
    /\ Len(possibleHosts) > 3

\* every candidate of the list has been checked and none answered
AllCandidatesFailed ==
    /\ proberRuns > 0
    /\ Len(checked) = Len(possibleHosts)
    /\ \A i \in 1..Len(checked) : ~checked[i].ok
    /\ lastOutcome \in {"timeout", "refused", "non2xx", "malformed"}

\* C2: when every candidate failed its liveness check, the prober returned
\* null, and the step init took next was the CLI probe: it has been started
\* exactly once and no network verification was made in between.
C2_AllFailThenCliProbe ==
    AllCandidatesFailed =>
        /\ workingHost = Null
        /\ ProberDone
        /\ cliProbeRuns = 1
        /\ verifyOutcome = "unset"
        /\ (pc = "cliProbe" \/ cliVersion # "unset")

\* C2 witness: the whole list failed, the last candidate with a body that
\* does not parse, and the CLI probe is running
C2_Witness ==
    /\ AllCandidatesFailed
    /\ lastOutcome = "malformed"
    /\ pc = "cliProbe"

\* the error kinds of the responses the handlers send
ErrorKind(r) ==
    CASE r.status = 503 -> "BackendUnavailable"
      [] r.status = 400 /\ r.error = "CLI mode does not support streaming" ->
             "StreamingUnsupported"
      [] r.status = 400 /\ r.error = "HTTP API mode only" -> "UnsupportedByMode"
      [] r.status = 500 -> "UpstreamError"
      [] OTHER -> "none"

\* a request has been received
Received == req.pc # "none"

HttpOnlyOps == ManageOps \cup {"embeddings"}

\* C3: once the first init() has returned, every later call of init()
\* returns what the first call returned, and the Endpoint Prober and the
\* CLI Probe have each run at most once.
C3_LaterInitReturnsSame ==
    /\ \A i \in 1..Len(initRet) :
         initRet[i].late => initRet[i].ret = initRet[1].ret
    /\ proberRuns <= 1
    /\ cliProbeRuns <= 1

\* C4: in CliFallback mode a chat or generate request with stream = true
\* has been answered StreamingUnsupported and no subprocess was started
\* for it.
C4_CliStreamRejected ==
    (Mode = "CliFallback" /\ Received /\ req.op \in {"chat", "generate"}
        /\ req.stream) =>
        /\ req.pc = "done"
        /\ ErrorKind(req) = "StreamingUnsupported"
        /\ req.procs = 0

\* C4 witness: a streaming chat request answered in CliFallback mode
C4_Witness ==
    /\ Mode = "CliFallback"
    /\ req.op = "chat" /\ req.stream /\ req.pc = "done"

\* C5: in CliFallback mode a create, delete, copy, show, pull, push or
\* embeddings request has been answered UnsupportedByMode, with no
\* subprocess started and no network call made for it.
C5_CliHttpOnlyRejected ==
    (Mode = "CliFallback" /\ Received /\ req.op \in HttpOnlyOps) =>
        /\ req.pc = "done"
        /\ ErrorKind(req) = "UnsupportedByMode"
        /\ req.procs = 0
        /\ req.netCalls = 0

\* C5 witness: a delete request answered in CliFallback mode
C5_Witness ==
    /\ Mode = "CliFallback"
    /\ req.op = "delete" /\ req.pc = "done"

\* C6 as stated: in Unavailable mode a model-management or embeddings
\* request is answered UnsupportedByMode.
C6_UnavailableUnsupportedByMode ==
    (Mode = "Unavailable" /\ Received /\ req.op \in HttpOnlyOps) =>
        /\ req.pc = "done"
        /\ ErrorKind(req) = "UnsupportedByMode"

\* C6 amended: in Unavailable mode a model-management or embeddings request
\* is answered BackendUnavailable, the error kind of every gated route in
\* that mode, while in CliFallback mode it is answered UnsupportedByMode.
C6_UnavailableBackendUnavailable ==
    (Received /\ req.op \in HttpOnlyOps) =>
        /\ Mode = "Unavailable" =>
             (req.pc = "done" /\ ErrorKind(req) = "BackendUnavailable")
        /\ Mode = "CliFallback" =>
             (req.pc = "done" /\ ErrorKind(req) = "UnsupportedByMode")

\* C6 witness: an embeddings request answered in Unavailable mode
C6_Witness ==
    /\ Mode = "Unavailable"
    /\ req.op = "embeddings" /\ req.pc = "done"

\* C7: a status request is answered 200 at once in every mode, and in
\* Unavailable mode the answer reports mode Unavailable, a null endpoint and
\* no CLI.
C7_StatusAlwaysSucceeds ==
    (Received /\ req.op = "status") =>
        /\ req.pc = "done"
        /\ req.status = 200
        /\ Mode = "Unavailable" =>
             /\ req.body.overall_status = "Unavailable"
             /\ req.body.http_api_host = Null
             /\ req.body.http_api_available = FALSE
             /\ req.body.cli_mode_available = FALSE

\* C7 witness: a status request answered in Unavailable mode
C7_Witness ==
    /\ Mode = "Unavailable"
    /\ req.op = "status" /\ req.pc = "done"

\* C8: once init has resolved the mode, no step (a request, its reply, its
\* failure or timeout, a later init() call) changes the mode or any of
\* ollama, useCLI and activeOllamaHost.
C8_ModeFrozen ==
    [][Resolved => /\ Mode' = Mode
                   /\ ollama' = ollama
                   /\ useCLI' = useCLI
                   /\ activeOllamaHost' = activeOllamaHost]_vars

\* C8 witness: the mode is resolved, a request has timed out and init() was
\* called again after the first call had returned
C8_Witness ==
    /\ Resolved
    /\ req.pc = "done" /\ req.status = 500 /\ req.error = "timeout"
    /\ \E i \in 1..Len(initRet) : initRet[i].late

\* C9: the SDK client and the CLI flag are never set together, and no
\* status answer reports both transports as available.
C9_OneTransport ==
    /\ ~(ollama # Null /\ useCLI)
    /\ (req.op = "status" /\ req.pc = "done") =>
         ~(req.body.http_api_available /\ req.body.cli_mode_available)

\* C9 witness: a host was found and its client constructed, the
\* verification failed, the CLI was chosen, and status has reported it
C9_Witness ==
    /\ workingHost \notin {Undefined, Null}
    /\ useCLI
    /\ req.op = "status" /\ req.pc = "done"
    /\ req.body.cli_mode_available

\* the HTTP stage of init left no client: no host found, or the verifying
\* list call failed
HttpStageFailed ==
    workingHost = Null \/ verifyOutcome \in {"error", "timeout"}

\* C10 as stated: after a failed HTTP stage the resolved mode is CliFallback
\* exactly when the CLI probe succeeded, and Unavailable otherwise.
C10_CliProbeAloneDecides ==
    (Resolved /\ HttpStageFailed) =>
        Mode = (IF testOllamaCLI(cliVersion) THEN "CliFallback"
                ELSE "Unavailable")

\* C10 amended: after a failed HTTP stage the resolved mode is CliFallback
\* exactly when the CLI probe succeeded and the `ollama list` run that
\* follows it succeeded too, and Unavailable otherwise.
C10_CliProbeAndListDecide ==
    (Resolved /\ HttpStageFailed) =>
        Mode = (IF testOllamaCLI(cliVersion) /\ cliListed = "ok"
                THEN "CliFallback" ELSE "Unavailable")

\* C10 witness: the verification failed, the CLI probe succeeded, the list
\* run failed
C10_Witness ==
    /\ Resolved
    /\ verifyOutcome = "error"
    /\ testOllamaCLI(cliVersion)
    /\ cliListed = "nonzero"

\* C11: in Unavailable mode a list-models, chat or generate request has
\* been answered BackendUnavailable with no network call made and no
\* subprocess started for it.
C11_UnavailableRejectsCore ==
    (Mode = "Unavailable" /\ Received
        /\ req.op \in {"models", "chat", "generate"}) =>
        /\ req.pc = "done"
        /\ ErrorKind(req) = "BackendUnavailable"
        /\ req.netCalls = 0
        /\ req.procs = 0

\* C11 witness: a generate request answered in Unavailable mode
C11_Witness ==
    /\ Mode = "Unavailable"
    /\ req.op = "generate" /\ req.pc = "done"

\* the answer the CLI handlers give when the subprocess ended as o
CliFailureAnswer(o) == <<500, ExecErrorMessage(o)>>

\* C12: a CLI chat request whose subprocess ran into the timeout is answered
\* with an error that no other subprocess failure produces, and no process
\* started for it is still running once it is answered.
C12_CliTimeoutDistinctAndKilled ==
    (req.op = "chat" /\ req.pc = "done" /\ req.procs > 0
        /\ req.outcome = "timeout") =>
        /\ \A o \in CliOutcomes \ {"ok", "timeout"} :
             <<req.status, req.error>> # CliFailureAnswer(o)
        /\ ~req.procAlive

\* no value occurs twice in the sequence
NoDuplicates(seq) ==
    \A i, j \in 1..Len(seq) : i # j => seq[i] # seq[j]

\* C13: the candidate list handed to the probe loop holds no undefined or
\* empty entry and no URL twice, and no URL is liveness-checked twice.
C13_CandidatesUnique ==
    proberRuns > 0 =>
        /\ \A i \in 1..Len(possibleHosts) : Truthy(possibleHosts[i])
        /\ NoDuplicates(possibleHosts)
        /\ NoDuplicates([i \in 1..Len(checked) |-> checked[i].host])

\* the groups of literal addresses in the candidate list
LoopbackHosts == {"http://localhost:11434", "http://127.0.0.1:11434"}
RemoteFallbacks == {"https://lzcollama.ponzs.heiyu.space",
                    "http://baota.ponzs.heiyu.space:11434",
                    "https://a.talkflow.team"}
ContainerGateways == {"http://host.docker.internal:11434",
                      "http://172.17.0.1:11434",
                      "http://172.18.0.1:11434"}
IntranetGateways == {"http://192.168.1.1:11434", "http://10.0.0.1:11434"}

\* C14 as stated: a remote fallback is liveness-checked only after every
\* container-gateway address has been checked and has failed.
C14_RemotesAfterGateways ==
    \A i \in 1..Len(checked) :
        checked[i].host \in RemoteFallbacks =>
            \A g \in ContainerGateways :
                \E j \in 1..(i - 1) : checked[j].host = g /\ ~checked[j].ok

\* C14 amended: the list is, in order, the configured host (when set), the
\* two loopback addresses, the LAN address, 0.0.0.0, the three remote
\* fallbacks, the three container-gateway addresses and the two intranet
\* gateways; entries are checked in that order, each only after every
\* earlier entry has failed, so the container-gateway entries come after
\* the remote fallbacks.
C14_ListOrderProbed ==
    proberRuns > 0 =>
        LET n == Len(possibleHosts)
            base == IF Truthy(OLLAMA_HOST) THEN 1 ELSE 0
        IN /\ n = base + 12
           /\ base = 1 => possibleHosts[1] = OLLAMA_HOST
           /\ \A i \in (base + 1)..(base + 2) : possibleHosts[i] \in LoopbackHosts
           /\ possibleHosts[base + 3] = "http://" \o localIP \o ":11434"
           /\ possibleHosts[base + 4] = "http://0.0.0.0:11434"
           /\ \A i \in (base + 5)..(base + 7) : possibleHosts[i] \in RemoteFallbacks
           /\ \A i \in (base + 8)..(base + 10) : possibleHosts[i] \in ContainerGateways
           /\ \A i \in (base + 11)..(base + 12) : possibleHosts[i] \in IntranetGateways
           /\ Len(checked) <= n
           /\ \A i \in 1..Len(checked) :
                /\ checked[i].host = possibleHosts[i]
                /\ i < Len(checked) => ~checked[i].ok

\* C14 witness: the remote fallbacks have all failed and the first
\* container-gateway entry has been checked, the LAN address being itself a
\* Docker bridge address
C14_Witness ==
    /\ proberRuns > 0
    /\ localIP = "172.17.0.1"
    /\ Len(checked) = Len(possibleHosts) - 4
    /\ checked[Len(checked)].host \in ContainerGateways
    /\ \A i \in 1..(Len(checked) - 1) : ~checked[i].ok

\* a streaming chat or generate request served by the SDK client
StreamingRelay ==
    /\ Received
    /\ req.op \in {"chat", "generate"}
    /\ req.stream
    /\ req.seen = "NetworkAPI"
    /\ req.pc \in {"streaming", "done", "rejected"}

\* C15: in a streaming chat or generate relay, whenever the handler waits
\* for the next chunk or has finished, the chunks written to the caller are
\* exactly the chunks the source delivered, each once and in arrival order;
\* and the response is ended with success only after the source stream has
\* ended.
C15_RelayInOrder ==
    StreamingRelay =>
        /\ req.relayed = req.produced
        /\ req.written = Len(req.produced)
        /\ \A i \in 1..Len(req.relayed) : req.relayed[i] = i
        /\ (req.ended /\ req.status = 200) => req.srcEnded

\* C15 witness: two chunks were relayed and the stream then ended
C15_Witness ==
    /\ StreamingRelay
    /\ req.op = "generate"
    /\ Len(req.relayed) = 2
    /\ req.ended /\ req.srcEnded

\* C16: a settled request has exactly one outcome: a complete success (the
\* response ended with status 200 and, for a stream, after the source ended)
\* or an ended response carrying one error kind; in particular no stream is
\* left with chunks written and neither an end nor an error.
C16_SuccessOrStructuredError ==
    (Received /\ Settled(req)) =>
        /\ req.ended
        /\ \/ (req.status = 200 /\ ErrorKind(req) = "none"
                 /\ (req.pc = "done") /\ (req.written > 0 => req.srcEnded))
           \/ (ErrorKind(req) # "none" /\ req.written = 0)

\* testOllamaCLI() has returned
CliProbeDone == cliVersion # "unset"

\* testOllamaCLI() returned true: init went on to getModelsViaCLI()
CliProbeSaidTrue == pc = "cliList" \/ cliListed # "unset"

\* C17 as stated: the CLI probe returned true exactly when the version
\* command exited with status 0 and printed something.
C17_TrueNeedsOutput ==
    CliProbeDone => (CliProbeSaidTrue <=> cliVersion = "exit0_output")

\* C17 amended: the CLI probe returned true exactly when the version command
\* exited with status 0 within the timeout, whether or not it printed
\* anything.
C17_TrueOnExitZero ==
    CliProbeDone =>
        (CliProbeSaidTrue <=> cliVersion \in {"exit0_output", "exit0_empty"})

\* C17 witness: the version command exited 0 with empty output and init went
\* on to list the models through the CLI
C17_Witness ==
    /\ cliVersion = "exit0_empty"
    /\ pc = "cliList"

\* the white-space-separated tokens of a line: its maximal runs of
\* characters that are not white space
Tokens(line) == SelectSeq(SplitSpaces(line), LAMBDA t : t # << >>)

\* the descriptor whose fields are the first four tokens of a line, the
\* empty string standing for a missing one
TokenDescriptor(line) ==
    LET t == Tokens(line)
    IN [name |-> OrEmpty(t, 1), modified_at |-> OrEmpty(t, 2),
        size |-> OrEmpty(t, 3), digest |-> OrEmpty(t, 4)]

\* C18: the parse discards the first line of the output and yields, for
\* every remaining non-blank line in order, the descriptor whose name,
\* modified_at, size and digest are the first four white-space-separated
\* tokens of that line, the empty string standing for a missing token.
C18_PositionalTokens ==
    parsed =>
        LET rows == DataLines(stdout)
        IN /\ Len(models) = Len(rows)
           /\ \A i \in 1..Len(rows) : models[i] = TokenDescriptor(rows[i])

\* C19: a server is listening only after init's prober, verification and
\* CLI probe have finished, and every request received has seen, when its
\* handler read ollama and useCLI, the transport of the final mode.
C19_RequestsSeeFinalMode ==
    /\ servers > 0 => pc = "done"
    /\ Received => (pc = "done" /\ req.seen = Mode)

\* C19 witness: prober, verification and CLI probe all ran, and a request
\* was then handled in CliFallback mode
C19_Witness ==
    /\ Received
    /\ verifyOutcome = "error"
    /\ cliListed = "ok"
    /\ req.seen = "CliFallback"

\* the transport call of the request failed: the awaited call rejected or
\* its stream threw
CallFailed == req.outcome \notin {"none", "ok"}

\* C20: a request has made at most one transport call, a network call or a
\* subprocess and never both, and when that call failed the request was
\* answered with an error after that one call.
C20_OneCallThenError ==
    Received =>
        /\ req.netCalls + req.procs <= 1
        /\ CallFailed =>
             /\ req.netCalls + req.procs = 1
             /\ req.pc = "done"
             /\ req.ended
             /\ ErrorKind(req) = "UpstreamError"

\* the part of C20 that does not depend on the answer: at most one
\* transport call per request, of the transport the handler saw selected,
\* and none added after a failure
C20_AtMostOneCall ==
    Received =>
        /\ req.netCalls + req.procs <= 1
        /\ req.netCalls > 0 => req.seen = "NetworkAPI"
        /\ req.procs > 0 => req.seen = "CliFallback"

ProberReturned(h) ==
    /\ Len(checked) > 0
    /\ checked[Len(checked)] = [host |-> h, ok |-> TRUE]
    /\ workingHost = h

====
